---------------------------- MODULE Spec2Model ----------------------------
(***************************************************************************)
(* Model of the discussion orchestration engine                            *)
(* (discussion/discussion_engine.py: ClinicalDiscussionEngine) and of the  *)
(* intervention broker (discussion/user_interaction.py:                    *)
(* UserInteractionManager), and of the session store                       *)
(* (auth/session_handler.py: SessionHandler).                              *)
(*                                                                         *)
(* Texts produced by the language model are abstracted to the kind of      *)
(* entry they leave in the round log; a participant prompt is abstracted   *)
(* to the digest and the context notes it carries.                         *)
(***************************************************************************)
EXTENDS Integers, Sequences, FiniteSets, TLC

(***************************************************************************)
(* Bounds of the model.                                                    *)
(***************************************************************************)
\* number of participants selected for the discussion
NumAgents == 3
\* largest value of max_rounds (args.discussion_rounds) explored
MaxRounds == 2
\* failures of participant calls plus operator interventions explored in one run
MaxEvents == 2
\* interventions submitted to the broker in one run
MaxSubmit == 2

\* the digest covers discussion_log[-3:]
\* session ids handed out, session_timeout in clock units, last clock value
NumSessions == 1
SessionTimeout == 2
MaxClock == 4
\* entries of a round log handed to the digest
MaxLogLen == 4
\* participants of a discussion whose quality is assessed
MaxParticipants == 6

DigestWindow == 3
\* the digest shows the first 150 characters of a text
TruncateAt == 150
\* no score of the quality assessment exceeds 10
ScoreCap == 10

Agents == 1..NumAgents
\* texts an operator may add to the case ("" is an empty input line)
Infos == {"info"}

VARIABLES
    \* ---- engine configuration -------------------------------------------
    interface,              \* the interface object given to the constructor
    agents,                 \* self.agents: the participants, in dict order
    user_participation,     \* discussion_config["user_participation"]
    max_rounds,             \* self.max_rounds
    \* ---- engine fields --------------------------------------------------
    is_running,             \* self.is_running
    current_round,          \* self.current_round
    skip_remaining_agents,  \* self.skip_remaining_agents
    discussion_log,         \* self.discussion_log
    user_interventions,     \* self.user_interventions
    additional_info,        \* self.medical_context["additional_info"]
    messages,               \* per agent: the context notes held in agent.messages
    skip_current_round,     \* attribute set by the broker's skip_round handler
    terminate_discussion,   \* attribute set by the broker's terminate handler
    \* ---- the activation of start_discussion -----------------------------
    pc,                     \* position of the engine thread
    round_log,              \* contributions of the round in flight
    agent_idx,              \* position in self.agents of the round loop
    current_history,        \* the digest taken at the start of the round
    result,                 \* the value start_discussion returned
    \* ---- what the collaborators saw -------------------------------------
    last_prompt,            \* the latest analysis prompt sent to a participant
    invocations,            \* number of participant calls made so far
    handled,                \* operator interventions handled at checkpoints
    budget,                 \* abnormal events the environment may still inject
    assessments,            \* what _assess_discussion_quality returned so far
    decision_call,          \* what the decision agent's call did in this run
    stop_call,              \* whether and where stop_discussion was called
    \* ---- broker (UserInteractionManager) --------------------------------
    interventions,          \* the UserIntervention objects created so far
    pending_interventions,  \* the queue, as indices into interventions
    active_interventions,   \* dict intervention_id -> object
    intervention_history,   \* list of objects
    stop_processing,        \* self._stop_processing
    clock,                  \* the timestamp datetime.now() formats into an id
    proc,                   \* position of the consumer thread and of a caller
    executions,             \* per object: how often its handler was run
    stopper,                \* position of a thread calling stop_processing
    reader,                 \* a thread inside get_intervention_status
    \* ---- session store (SessionHandler) ---------------------------------
    sessions,               \* the SessionData objects created so far
    active_sessions,   \* keys of self.active_sessions
    wall,                   \* what datetime.now() returns
    sweeper,                \* position and local now of the cleanup thread
    creator,                \* position and local now of a create_session call
    mutator,                \* position and session handle of a mutating call
    destroyed,              \* ids given to a successful destroy_session
    last_call,              \* the read operation returning in this state
    mut_result              \* the mutating operation returning in this state

engineVars == <<interface, agents, assessments, decision_call,
                user_participation, max_rounds, is_running,
                current_round, skip_remaining_agents, discussion_log,
                user_interventions, additional_info, messages,
                skip_current_round, terminate_discussion, pc, round_log,
                agent_idx, current_history, result, last_prompt, invocations,
                handled, budget, stop_call>>

brokerVars == <<interventions, pending_interventions, active_interventions,
                intervention_history, stop_processing, clock, proc, executions,
                stopper, reader>>

sessionVars == <<sessions, active_sessions, wall, sweeper, creator,
                 mutator, destroyed, last_call, mut_result>>
vars == <<engineVars, brokerVars, sessionVars>>

(***************************************************************************)
(* Pure helpers of the engine.                                             *)
(***************************************************************************)
Max(a, b) == IF a > b THEN a ELSE b
Min(a, b) == IF a < b THEN a ELSE b

RECURSIVE SumSeq(_)
SumSeq(q) == IF q = <<>> THEN 0 ELSE Head(q) + SumSeq(Tail(q))
NoPrompt == [round |-> 0, agent |-> 0,
             history |-> [sentinel |-> TRUE, rounds |-> <<>>],
             notes |-> <<>>]

\* The interfaces the repository constructs an engine with: the CLI's
\* interface object, or none (the default interface factory returns None).
Interfaces == {"cli", "none"}
\* An interface object a caller hands to the constructor whose
\* has_user_input reports that input is waiting.
ReportingInterfaces == {"reporting"}

\* interface.has_user_input(timeout): CLIInterface returns False; on the
\* None interface the attribute lookup raises.
has_user_input(iface) ==
    IF iface = "cli" THEN [raised |-> FALSE, value |-> FALSE]
    ELSE IF iface \in ReportingInterfaces THEN [raised |-> FALSE, value |-> TRUE]
    ELSE [raised |-> TRUE, value |-> FALSE]

\* _check_user_intervention: False when participation is off, otherwise the
\* interface's answer, and False when asking raises.
check_user_intervention(participation, iface) ==
    IF ~participation THEN FALSE
    ELSE IF has_user_input(iface).raised THEN FALSE
    ELSE has_user_input(iface).value

\* A contribution with text the digest shows: an analysis whose
\* concise_analysis is non-empty, or a non-empty broadcast response.
HasText(c) == c.kind \in {"ok", "response"} /\ c.chars > 0

\* text[:150] + "..." if len(text) > 150 else text: the characters of the
\* text that are shown, and whether the ellipsis follows them
short_text_uncut(chars) == [chars |-> chars, ellipsis |-> FALSE]
short_text(chars) ==
    [chars |-> Min(chars, TruncateAt), ellipsis |-> chars > TruncateAt]

\* One round of the digest: its header label and the lines under it.
\* A normal round is labelled with round_data["round"] + 1.
DigestRound(rd) ==
    [type  |-> rd.type,
     label |-> IF rd.type = "normal" THEN rd.round + 1 ELSE 0,
     lines |-> SelectSeq(rd.contributions, HasText),
     shown |-> [i \in 1..Len(SelectSeq(rd.contributions, HasText)) |->
                  short_text(SelectSeq(rd.contributions, HasText)[i].chars)]]

\* _get_current_discussion_context: the last DigestWindow entries of the
\* round log, or the sentinel when nothing was produced.
Digest(log) ==
    LET n      == Len(log)
        first  == Max(1, n - DigestWindow + 1)
        recent == SubSeq(log, first, n)
    IN  [sentinel |-> recent = <<>>,
         rounds   |-> [i \in 1..Len(recent) |-> DigestRound(recent[i])]]

\* BaseAgent.set_shared_history: messages become the system message followed
\* by the shared history; the notes appended earlier are not kept.
set_shared_history(notes, shared) == <<>>

\* BaseAgent.update_context: appends one user message carrying the text.
update_context(notes, information) == Append(notes, information)

\* _update_medical_context notifies every agent, and the add_information
\* branch of _handle_user_intervention notifies every agent once more.
NotifyAll(msgs, information) ==
    [a \in Agents |-> update_context(update_context(msgs[a], information), information)]

\* The entry the round loop appends for a participant call in round r.  The
\* pair (round, agent) stands for the text the call produced, chars for the
\* length of its concise_analysis: an analysis is taken to be longer than
\* the digest's cut, a failure carries no analysis.
Contribution(r, a, outcome) ==
    IF outcome = "raised"
    THEN [agent |-> a, kind |-> "error", round |-> r, chars |-> 0]
    ELSE [agent |-> a, kind |-> outcome, round |-> r,
          chars |-> IF outcome = "ok" THEN TruncateAt + 1 ELSE 0]

\* The except branch of the round loop: what a raising participant adds to
\* the round log.
ErrorContributionDropped(r, a) == <<>>
ErrorContribution(r, a) == <<Contribution(r, a, "raised")>>

\* Outcomes of analyze_clinical_case the environment may produce.
Outcomes(b) == IF b > 0 THEN {"ok", "failed", "raised"} ELSE {"ok"}

\* What _get_blocking_user_intervention returns: None (the operator presses
\* return) or the intervention built by _get_intervention_details.
NoIntervention == [type |-> "none", target |-> 0, information |-> ""]
OperatorChoices(b) ==
    {NoIntervention} \cup
    IF b > 0
    THEN [type : {"question_to_agent"}, target : Agents, information : {""}]
         \cup [type : {"broadcast_question", "skip_round", "interrupt"},
               target : {0}, information : {""}]
         \cup [type : {"add_information"}, target : {0}, information : Infos]
    ELSE {}

\* The control branches of _handle_user_intervention: skip_round sets the
\* skip flag and returns True, interrupt clears is_running and returns True,
\* every other type falls through to the record and returns False.
HandlerEffectNoSkipBranch(type) ==
    [skip |-> FALSE,
     stop |-> type = "interrupt",
     ret  |-> type = "interrupt"]
HandlerEffect(type) ==
    [skip |-> type = "skip_round",
     stop |-> type = "interrupt",
     ret  |-> type \in {"skip_round", "interrupt"}]

\* The round returns at once when the handler returned True and the type is
\* interrupt or skip_round.
ReturnsRoundEarlyNoInterrupt(type) ==
    HandlerEffect(type).ret /\ type = "skip_round"
ReturnsRoundEarly(type) ==
    HandlerEffect(type).ret /\ type \in {"interrupt", "skip_round"}

\* stop_discussion has not been called
NoStop == [called |-> FALSE, at |-> "none", round |-> 0]

\* range(1, self.max_rounds + 1): whether a further round number exists.
HasNextRoundShort(cur, max) == cur + 1 < max
HasNextRoundBeyond(cur, max) == cur <= max
HasNextRound(cur, max) == cur < max


(***************************************************************************)
(* Aggregation: the quality assessment, the final summary and the records  *)
(* start_discussion returns.                                               *)
(***************************************************************************)
\* the positions <<round, entry>> of the contributions of a round log
Positions(log) ==
    UNION {{<<i, j>> : j \in 1..Len(log[i].contributions)} : i \in 1..Len(log)}
EntryAt(log, p) == log[p[1]].contributions[p[2]]

\* sum(len(round["contributions"]) for round in self.discussion_log)
total_contributions(log) ==
    SumSeq([i \in 1..Len(log) |-> Len(log[i].contributions)])

\* len(set(cont["agent"] ...)): every entry of the log carries its agent
unique_perspectives(log) ==
    Cardinality({EntryAt(log, p).agent : p \in Positions(log)})

\* round_log["logic_reports"] is created empty and nothing appends to it; a
\* broadcast round has no such key and round.get defaults to the empty list
logic_reports(rd) == <<>>
logic_issues(log) ==
    SumSeq([i \in 1..Len(log) |-> Len(logic_reports(log[i]))])

\* _score_diagnosis_completeness: the distinct values under the key
\* "diagnosis" of the analysis results
score_diagnosis_completeness_by_text(log) ==
    Min(ScoreCap, Cardinality({EntryAt(log, p).chars : p \in Positions(log)}))
score_diagnosis_completeness(log) ==
    Min(ScoreCap,
        Cardinality({EntryAt(log, p).diagnosis :
                        p \in {q \in Positions(log) :
                                 "diagnosis" \in DOMAIN EntryAt(log, q)}}))

score_treatment_rationality == 8
score_integration_quality == 7

\* min(10, unique_perspectives * 2)
perspective_diversity_uncapped(unique) == unique * 2
perspective_diversity(unique) == Min(ScoreCap, unique * 2)

Metrics ==
    {"diagnosis_completeness", "treatment_rationality", "integration_quality",
     "discussion_depth", "perspective_diversity", "logic_consistency"}

\* the value of "evaluation_metrics" when no assessment was made: {}
NoQuality ==
    [error |-> FALSE, scores |-> [m \in {} |-> 0], overall |-> [num |-> 0, den |-> 1]]

\* _assess_discussion_quality.  The overall score is the quotient num/den.
\* With no agent the division raises and the except branch answers
\* {"overall_score": 0, "error": ...}.
assess_discussion_quality(log, ags) ==
    IF Len(ags) = 0
    THEN [error |-> TRUE, scores |-> [m \in {} |-> 0], overall |-> [num |-> 0, den |-> 1]]
    ELSE LET quality_scores ==
               [m \in Metrics |->
                  CASE m = "diagnosis_completeness" -> score_diagnosis_completeness(log)
                    [] m = "treatment_rationality" -> score_treatment_rationality
                    [] m = "integration_quality" -> score_integration_quality
                    [] m = "discussion_depth" ->
                          Min(ScoreCap, total_contributions(log) \div Len(ags))
                    [] m = "perspective_diversity" ->
                          perspective_diversity(unique_perspectives(log))
                    [] m = "logic_consistency" -> Max(0, ScoreCap - logic_issues(log))]
         IN  [error   |-> FALSE,
              scores  |-> quality_scores,
              overall |-> [num |-> quality_scores["diagnosis_completeness"]
                                   + quality_scores["treatment_rationality"]
                                   + quality_scores["integration_quality"]
                                   + quality_scores["discussion_depth"]
                                   + quality_scores["perspective_diversity"]
                                   + quality_scores["logic_consistency"],
                           den |-> Cardinality(Metrics)]]

\* Whether the decision agent exists and what its chat call does; a missing
\* agent and a raising call are explored while the event budget is not used up.
DecisionOutcomes(b) == IF b > 0 THEN {"ok", "raised", "absent"} ELSE {"ok"}

\* DecisionMakersAgent.make_final_decision: the parsed answer, or, when the
\* chat call raises, the dict {"success": False, "error": str(e)}.
make_final_decision(outcome) ==
    IF outcome = "raised" THEN [success |-> FALSE, kind |-> "error_value"]
    ELSE [success |-> TRUE, kind |-> "decision"]

\* _generate_backup_summary: one line "agent: analysis" for every entry that
\* has the key "contribution", in log order.
HasContribution(c) == c.kind \in {"ok", "failed"}
RECURSIVE BackupLines(_)
BackupLines(log) ==
    IF log = <<>> THEN <<>>
    ELSE SelectSeq(Head(log).contributions, HasContribution) \o BackupLines(Tail(log))
generate_backup_summary(log) ==
    [backup |-> TRUE,
     summary |-> [kind |-> "backup", text |-> BackupLines(log)],
     quality_assessment |-> NoQuality,
     assessed |-> FALSE]

\* _generate_final_summary: the backup summary when there is no decision
\* agent; otherwise whatever make_final_decision returned becomes the
\* discussion summary, and the quality assessment is attached.
generate_final_summary(outcome, log, ags) ==
    IF outcome = "absent" THEN generate_backup_summary(log)
    ELSE [backup |-> FALSE,
          summary |-> [kind |-> make_final_decision(outcome).kind, text |-> <<>>],
          quality_assessment |-> assess_discussion_quality(log, ags),
          assessed |-> TRUE]

NoSummary == [kind |-> "none", text |-> <<>>]
NoProcess == [discussion_log |-> <<>>, user_interventions |-> <<>>]

\* A returned record: status is metadata["status"] (for the complete
\* record, which has no such key, medical_context["status"]); keys are the
\* keys the record carries; process is what discussion_process showed when
\* the record was returned.
NoResult ==
    [status |-> "none", rounds_completed |-> 0, keys |-> {}, error |-> "",
     clinical_summary |-> NoSummary, evaluation_metrics |-> NoQuality,
     process |-> NoProcess]

\* the complete record of lines 289-315
complete_result(final_summary, cur, log, ui) ==
    [status |-> "completed", rounds_completed |-> cur,
     keys |-> {"rounds_completed", "discussion_process", "clinical_summary",
               "evaluation_metrics"},
     error |-> "",
     clinical_summary |-> final_summary.summary,
     evaluation_metrics |-> final_summary.quality_assessment,
     process |-> [discussion_log |-> log, user_interventions |-> ui]]

\* _create_interrupted_result
create_interrupted_result(cur) ==
    [status |-> "interrupted", rounds_completed |-> cur,
     keys |-> {"status", "rounds_completed", "error"},
     error |-> "interrupted by the user",
     clinical_summary |-> NoSummary, evaluation_metrics |-> NoQuality,
     process |-> NoProcess]

\* _create_error_result
create_error_result_as_completed(error_msg) ==
    [status |-> "completed", rounds_completed |-> 0,
     keys |-> {"clinical_summary"}, error |-> "",
     clinical_summary |-> [kind |-> "decision", text |-> <<>>],
     evaluation_metrics |-> NoQuality, process |-> NoProcess]
create_error_result(error_msg) ==
    [status |-> "error", rounds_completed |-> 0,
     keys |-> {"status", "error"},
     error |-> error_msg,
     clinical_summary |-> NoSummary, evaluation_metrics |-> NoQuality,
     process |-> NoProcess]

\* The record the caller of start_discussion holds shares the list objects
\* self.discussion_log and self.user_interventions: what it shows now.
RecordProcess ==
    IF "discussion_process" \in result.keys
    THEN [discussion_log |-> discussion_log, user_interventions |-> user_interventions]
    ELSE NoProcess


(***************************************************************************)
(* The intervention broker.                                                *)
(***************************************************************************)
\* the broker's background consumer thread, and a thread that calls
\* get_intervention and then handle_intervention
Procs == {"consumer", "caller"}
ProcAt(where) == [pc |-> where, obj |-> 0, raised |-> FALSE]

\* the public methods of ClinicalDiscussionEngine
EngineMethods ==
    {"initialize_discussion", "add_agent_dynamically", "start_discussion",
     "stop_discussion", "get_discussion_status", "respond_to_user_question"}

\* what an operator-facing interface may submit: type and payload
CommandKinds ==
    [type : {"direct_command"}, arg : {"skip_round", "terminate_discussion", "unknown"}]
SubmitKinds ==
    [type : {"direct_command"}, arg : {"skip_round"}]
    \cup [type : {"add_information"}, arg : Infos \cup {""}]
    \cup [type : {"question_to_agent"}, arg : {"question"}]

\* queue.Queue.get / get_nowait on a non-empty queue: the head is removed
QueuePeek(q) == [item |-> Head(q), rest |-> q]
QueueGet(q) == [item |-> Head(q), rest |-> Tail(q)]

\* dict operations on active_interventions, a set of (key, obj) entries
ActiveHas(act, k) == \E e \in act : e.key = k
ActivePut(act, k, o) == {e \in act : e.key # k} \cup {[key |-> k, obj |-> o]}
ActiveDel(act, k) == {e \in act : e.key # k}

\* The outcomes of a handler: whether it raises, and which attribute of the
\* engine it sets.
Outcome(raised, attr) == [raised |-> raised, attr |-> attr]

\* _handle_add_information: raises on an empty text, then calls
\* discussion_engine.add_user_information, then notifies the agents.
handle_add_information(information) ==
    IF information = "" THEN {Outcome(TRUE, "none")}
    ELSE IF "add_user_information" \notin EngineMethods THEN {Outcome(TRUE, "none")}
    ELSE {Outcome(FALSE, "notified")}

\* _handle_direct_command: the command table; an unknown command raises.
handle_direct_command(command) ==
    IF command = "skip_round" THEN {Outcome(FALSE, "skip_current_round")}
    ELSE IF command = "terminate_discussion" THEN {Outcome(FALSE, "terminate_discussion")}
    ELSE {Outcome(TRUE, "none")}

\* _handle_question_to_agent: agent.chat answers or raises.
handle_question_to_agent(question) ==
    {Outcome(FALSE, "none"), Outcome(TRUE, "none")}

\* _execute_intervention: the handler table
execute_intervention(iv) ==
    IF iv.type = "add_information" THEN handle_add_information(iv.arg)
    ELSE IF iv.type = "direct_command" THEN handle_direct_command(iv.arg)
    ELSE handle_question_to_agent(iv.arg)

\* handle_intervention, the try/except around the handler (lines 90-98):
\* the result makes the status completed; "except Exception" catches what
\* the handler raises, makes the status failed and keeps the message.
AfterHandlerUncaught(raised) ==
    [status    |-> IF raised THEN "processing" ELSE "completed",
     response  |-> IF raised THEN "none" ELSE "result",
     propagate |-> raised]
AfterHandler(raised) ==
    [status    |-> IF raised THEN "failed" ELSE "completed",
     response  |-> IF raised THEN "error" ELSE "result",
     propagate |-> FALSE]

\* get_intervention_status: the object stored under the id in
\* active_interventions, else the first object of the history with that
\* id, else None (0).
get_intervention_status(id) ==
    IF ActiveHas(active_interventions, id)
    THEN (CHOOSE e \in active_interventions : e.key = id).obj
    ELSE LET hits == {i \in 1..Len(intervention_history) :
                        interventions[intervention_history[i]].intervention_id = id}
         IN  IF hits = {} THEN 0
             ELSE intervention_history[CHOOSE i \in hits : \A j \in hits : i <= j]

\* a thread that is not inside get_intervention_status: the id it asks
\* for, the object it asks about, what the call returned (0 for None) and
\* whether it raised
NoLookup == [pc |-> "idle", id |-> 0, obj |-> 0, claimed |-> FALSE,
             result |-> 0, raised |-> FALSE]

\* while not self._stop_processing
LoopContinuesAlways(stop) == TRUE
LoopContinues(stop) == ~stop

\* where a thread continues after handle_intervention
Resume(p) == IF p = "consumer" THEN "loop" ELSE "idle"

(***************************************************************************)
(* Initial state: an engine on which initialize_discussion has succeeded.  *)
(***************************************************************************)
InitEngineFields(interfaces, participations, rounds, events) ==
    /\ interface \in interfaces
    /\ user_participation \in participations
    /\ max_rounds \in rounds
    /\ is_running = FALSE
    /\ stop_call = NoStop
    /\ current_round = 0
    /\ skip_remaining_agents = FALSE
    /\ user_interventions = <<>>
    /\ additional_info = <<>>
    /\ messages = [a \in Agents |-> <<>>]
    /\ skip_current_round = FALSE
    /\ terminate_discussion = FALSE
    /\ pc = "idle"
    /\ round_log = <<>>
    /\ agent_idx = 0
    /\ current_history = Digest(<<>>)
    /\ result = NoResult
    /\ last_prompt = NoPrompt
    /\ invocations = 0
    /\ handled = <<>>
    /\ budget = events
    /\ assessments = <<>>
    /\ decision_call = "none"

\* the engine before its first discussion: an empty round log and the
\* selected participants
InitEngine(interfaces, participations, rounds, events) ==
    /\ InitEngineFields(interfaces, participations, rounds, events)
    /\ discussion_log = <<>>
    /\ agents = [i \in 1..NumAgents |-> i]

\* UserInteractionManager.__init__: empty queue, table and history, and the
\* consumer thread started.
InitBroker ==
    /\ interventions = <<>>
    /\ pending_interventions = <<>>
    /\ active_interventions = {}
    /\ intervention_history = <<>>
    /\ stop_processing = FALSE
    /\ clock = 0
    /\ proc = [p \in Procs |-> IF p = "consumer" THEN ProcAt("loop") ELSE ProcAt("idle")]
    /\ executions = [o \in 1..MaxSubmit |-> 0]
    /\ stopper = "idle"
    /\ reader = NoLookup

(***************************************************************************)
(* The session store.                                                      *)
(***************************************************************************)
\* the ids callers may pass: those _generate_session_id hands out, in the
\* order it hands them out; an id not handed out yet is an unknown id
SessionIds == 1..NumSessions

\* time_since_activity > self.session_timeout
IsExpiredAtBoundary(now, last) == now - last >= SessionTimeout
IsExpired(now, last) == now - last > SessionTimeout

\* _cleanup_expired_sessions, the scan: the ids whose entry is expired at
\* the sweep's reading of the clock
expired_sessions_all(now) == active_sessions
expired_sessions_none(now) == {}
expired_sessions(now) ==
    {sid \in active_sessions : IsExpired(now, sessions[sid].last_activity)}

NoCall == [op |-> "none", sid |-> 0, created |-> FALSE, live |-> FALSE,
           elapsed |-> 0, ok |-> FALSE, touched |-> FALSE]

NoMut == [sid |-> 0, ok |-> FALSE, present |-> FALSE]

\* whether create_session has stored a session under the id, and the
\* time since that session's last activity
Known(sid) == sid <= Len(sessions)
Inactivity(sid) == IF Known(sid) THEN wall - sessions[sid].last_activity ELSE 0

\* validate_session: absent -> (False, None); expired -> the entry is
\* deleted, (False, None); otherwise last_activity := now, (True, data)
validate_session(sid) ==
    IF sid \notin active_sessions
    THEN [ok |-> FALSE, active |-> active_sessions, objs |-> sessions]
    ELSE IF IsExpired(wall, sessions[sid].last_activity)
    THEN [ok |-> FALSE, active |-> active_sessions \ {sid}, objs |-> sessions]
    ELSE [ok |-> TRUE, active |-> active_sessions,
          objs |-> [sessions EXCEPT ![sid].last_activity = wall]]

\* update_session_activity: present -> last_activity := now, True
update_session_activity(sid) ==
    IF sid \in active_sessions
    THEN [ok |-> TRUE, active |-> active_sessions,
          objs |-> [sessions EXCEPT ![sid].last_activity = wall]]
    ELSE [ok |-> FALSE, active |-> active_sessions, objs |-> sessions]

\* get_session_data: self.active_sessions.get(session_id)
get_session_data(sid) ==
    [ok |-> sid \in active_sessions, active |-> active_sessions, objs |-> sessions]

\* destroy_session: present -> the entry is deleted, True
destroy_session(sid) ==
    [ok |-> sid \in active_sessions, active |-> active_sessions \ {sid},
     objs |-> sessions]

\* the record of operation op called with sid and having effect e: what
\* was true of the id when the call was made, and what the call did
CallRecord(op, sid, e) ==
    [op |-> op, sid |-> sid,
     created |-> Known(sid),
     live    |-> Known(sid) /\ sid \notin destroyed,
     elapsed |-> Inactivity(sid),
     ok      |-> e.ok,
     touched |-> Known(sid) /\ e.objs[sid].last_activity = wall]

\* SessionHandler.__init__: an empty store and the cleanup thread started
InitSession ==
    /\ sessions = <<>>
    /\ active_sessions = {}
    /\ wall = 0
    /\ sweeper = [pc |-> "read", now |-> 0]
    /\ creator = [pc |-> "idle", now |-> 0]
    /\ mutator = [pc |-> "idle", sid |-> 0]
    /\ destroyed = {}
    /\ last_call = NoCall
    /\ mut_result = NoMut

Init ==
    /\ InitEngine(Interfaces, BOOLEAN, 1..MaxRounds, MaxEvents)
    /\ InitBroker
    /\ InitSession

(***************************************************************************)
(* start_discussion                                                        *)
(***************************************************************************)
\* lines 257-258
StartDiscussion ==
    /\ pc = "idle"
    /\ is_running' = TRUE
    /\ current_round' = 0
    /\ pc' = "loop"
    /\ UNCHANGED <<interface, agents, assessments, decision_call,
                   user_participation, max_rounds,
                   skip_remaining_agents, discussion_log, user_interventions,
                   additional_info, messages, skip_current_round,
                   terminate_discussion, round_log, agent_idx, current_history,
                   result, last_prompt, invocations, handled, budget>>
    /\ UNCHANGED <<brokerVars, sessionVars, stop_call>>

\* "self.skip_remaining_agents = False" in the prologue of a round (line 422)
SkipFlagKeptAtRoundStart(flag) == flag
SkipFlagAtRoundStart(flag) == FALSE

\* One iteration head of the round loop (lines 264-273) and the prologue of
\* _execute_discussion_round (lines 414-425).
NextRound ==
    /\ pc = "loop"
    /\ IF HasNextRound(current_round, max_rounds)
       THEN /\ current_round' = current_round + 1
            /\ IF ~is_running
               THEN /\ pc' = "finish"
                    /\ UNCHANGED <<round_log, skip_remaining_agents,
                                   current_history, agent_idx>>
               ELSE /\ pc' = "agents"
                    /\ round_log' = <<>>
                    /\ skip_remaining_agents' = SkipFlagAtRoundStart(skip_remaining_agents)
                    /\ current_history' = Digest(discussion_log)
                    /\ agent_idx' = 1
       ELSE /\ pc' = "finish"
            /\ UNCHANGED <<current_round, round_log, skip_remaining_agents,
                           current_history, agent_idx>>
    /\ UNCHANGED <<interface, agents, assessments, decision_call,
                   user_participation, max_rounds, is_running,
                   discussion_log, user_interventions, additional_info,
                   messages, skip_current_round, terminate_discussion, result,
                   last_prompt, invocations, handled, budget>>
    /\ UNCHANGED <<brokerVars, sessionVars, stop_call>>

\* One iteration of "for agent_name, agent in self.agents.items()" up to the
\* checkpoint (lines 428-463 and 475-481), or the end of the loop.
InvokeParticipant ==
    /\ pc = "agents"
    /\ IF agent_idx > NumAgents \/ skip_remaining_agents
       THEN /\ pc' = "round_end"
            /\ UNCHANGED <<messages, last_prompt, invocations, round_log,
                           agent_idx, budget>>
       ELSE \E outcome \in Outcomes(budget) :
            LET a == agent_idx IN
            /\ invocations' = invocations + 1
            /\ budget' = IF outcome = "ok" THEN budget ELSE budget - 1
            /\ IF outcome = "raised"
               THEN /\ round_log' = round_log \o ErrorContribution(current_round, a)
                    /\ UNCHANGED <<messages, last_prompt>>
                    /\ agent_idx' = agent_idx + 1
                    /\ pc' = "agents"
               ELSE /\ messages' = [messages EXCEPT
                                      ![a] = set_shared_history(@, current_history)]
                    /\ last_prompt' = [round   |-> current_round,
                                       agent   |-> a,
                                       history |-> current_history,
                                       notes   |-> messages'[a]]
                    /\ round_log' = Append(round_log, Contribution(current_round, a, outcome))
                    /\ IF user_participation
                       THEN pc' = "checkpoint" /\ UNCHANGED agent_idx
                       ELSE pc' = "agents" /\ agent_idx' = agent_idx + 1
    /\ UNCHANGED <<interface, agents, assessments, decision_call,
                   user_participation, max_rounds, is_running,
                   current_round, skip_remaining_agents, discussion_log,
                   user_interventions, additional_info, skip_current_round,
                   terminate_discussion, current_history, result, handled>>
    /\ UNCHANGED <<brokerVars, sessionVars, stop_call>>

\* The broadcast_question branch of _handle_user_intervention (lines
\* 633-688): every agent answers, the synthetic round is appended.
BroadcastRoundAnsweredOnly(log, failing) ==
    [type |-> "broadcast_question",
     round |-> Len(log) + 1,
     contributions |->
        SelectSeq([i \in 1..NumAgents |->
                     [agent |-> i,
                      kind  |-> IF i \in failing THEN "error" ELSE "response",
                      round |-> Len(log) + 1,
                      chars |-> IF i \in failing THEN 0 ELSE TruncateAt + 1]],
                  LAMBDA c : c.kind = "response")]
BroadcastRound(log, failing) ==
    [type |-> "broadcast_question",
     round |-> Len(log) + 1,
     contributions |->
        [i \in 1..NumAgents |->
            [agent |-> i,
             kind  |-> IF i \in failing THEN "error" ELSE "response",
             round |-> Len(log) + 1,
             chars |-> IF i \in failing THEN 0 ELSE TruncateAt + 1]]]

\* The checkpoint after a participant (lines 465-473):
\* _get_blocking_user_intervention, then _handle_user_intervention.
Checkpoint ==
    /\ pc = "checkpoint"
    /\ \E iv \in OperatorChoices(budget) :
       IF iv.type = "none"
       THEN /\ pc' = "agents"
            /\ agent_idx' = agent_idx + 1
            /\ UNCHANGED <<is_running, skip_remaining_agents, discussion_log,
                           user_interventions, additional_info, messages,
                           invocations, handled, budget>>
       ELSE /\ handled' = Append(handled,
                                 [type        |-> iv.type,
                                  information |-> iv.information,
                                  round       |-> current_round,
                                  after       |-> agent_idx,
                                  invocations |-> invocations])
            /\ is_running' = IF HandlerEffect(iv.type).stop THEN FALSE ELSE is_running
            /\ skip_remaining_agents' =
                  IF HandlerEffect(iv.type).skip THEN TRUE ELSE skip_remaining_agents
            /\ IF iv.type = "broadcast_question"
               THEN \E failing \in SUBSET Agents :
                      /\ Cardinality(failing) <= budget - 1
                      /\ budget' = budget - 1 - Cardinality(failing)
                      /\ discussion_log' =
                            Append(discussion_log, BroadcastRound(discussion_log, failing))
                      /\ invocations' = invocations + NumAgents
               ELSE /\ budget' = budget - 1
                    /\ UNCHANGED discussion_log
                    /\ invocations' = IF iv.type = "question_to_agent"
                                      THEN invocations + 1 ELSE invocations
            /\ IF iv.type = "add_information"
               THEN /\ additional_info' = Append(additional_info, iv.information)
                    /\ messages' = NotifyAll(messages, iv.information)
               ELSE UNCHANGED <<additional_info, messages>>
            /\ user_interventions' =
                  IF HandlerEffect(iv.type).ret THEN user_interventions
                  ELSE Append(user_interventions, [type |-> iv.type])
            /\ IF ReturnsRoundEarly(iv.type)
               THEN pc' = "round_end" /\ UNCHANGED agent_idx
               ELSE pc' = "agents" /\ agent_idx' = agent_idx + 1
    /\ UNCHANGED <<interface, agents, assessments, decision_call,
                   user_participation, max_rounds, current_round,
                   skip_current_round, terminate_discussion, round_log,
                   current_history, result, last_prompt>>
    /\ UNCHANGED <<brokerVars, sessionVars, stop_call>>

\* The round returns: its log is appended and the between-rounds check is
\* made (lines 273-281).  _handle_user_intervention is called there without
\* its argument, which raises and ends the run with the error result.
EndRound ==
    /\ pc = "round_end"
    /\ discussion_log' = Append(discussion_log,
                                [type |-> "normal",
                                 round |-> current_round,
                                 contributions |-> round_log])
    /\ IF check_user_intervention(user_participation, interface)
       THEN /\ result' = create_error_result("TypeError")
            /\ is_running' = FALSE
            /\ pc' = "done"
       ELSE /\ pc' = "loop"
            /\ UNCHANGED <<result, is_running>>
    /\ UNCHANGED <<interface, agents, assessments, decision_call,
                   user_participation, max_rounds, current_round,
                   skip_remaining_agents, user_interventions, additional_info,
                   messages, skip_current_round, terminate_discussion,
                   round_log, agent_idx, current_history, last_prompt,
                   invocations, handled, budget>>
    /\ UNCHANGED <<brokerVars, sessionVars, stop_call>>

\* the test "if self.is_running" after the round loop (line 284)
SummaryBranchAlways(running) == TRUE
SummaryBranch(running) == running

\* After the loop (lines 283-325): when still running the final summary is
\* generated and the complete record built, otherwise the interrupted
\* result; finally is_running is cleared.
FinishWith(running) ==
    /\ IF SummaryBranch(running)
       THEN \E outcome \in DecisionOutcomes(budget) :
              LET final_summary ==
                    generate_final_summary(outcome, discussion_log, agents)
              IN  /\ result' = complete_result(final_summary, current_round,
                                               discussion_log, user_interventions)
                  /\ assessments' =
                        IF final_summary.assessed
                        THEN Append(assessments,
                                    [log |-> discussion_log,
                                     quality |-> final_summary.quality_assessment])
                        ELSE assessments
                  /\ decision_call' = outcome
       ELSE /\ result' = create_interrupted_result(current_round)
            /\ UNCHANGED <<assessments, decision_call>>
    /\ is_running' = FALSE
    /\ pc' = "done"
    /\ UNCHANGED <<interface, agents, user_participation, max_rounds, current_round,
                   skip_remaining_agents, discussion_log, user_interventions,
                   additional_info, messages, skip_current_round,
                   terminate_discussion, round_log, agent_idx, current_history,
                   last_prompt, invocations, handled, budget>>
    /\ UNCHANGED <<brokerVars, sessionVars, stop_call>>

Finish ==
    /\ pc = "finish"
    /\ FinishWith(is_running)

NextEngine ==
    \/ StartDiscussion
    \/ NextRound
    \/ InvokeParticipant
    \/ Checkpoint
    \/ EndRound
    \/ Finish

Spec == Init /\ [][NextEngine]_vars

\* the engine constructed with any interface object, among them one that
\* reports waiting input between rounds
InitAnyInterface ==
    /\ InitEngine(Interfaces \cup ReportingInterfaces, BOOLEAN, 1..MaxRounds, MaxEvents)
    /\ InitBroker
    /\ InitSession

SpecAnyInterface == InitAnyInterface /\ [][NextEngine]_vars

(***************************************************************************)
(* _get_current_discussion_context applied to given round logs.            *)
(***************************************************************************)
\* lengths of a text: none, at the cut, beyond the cut
TextLengths == {0, TruncateAt, TruncateAt + 1}

\* the entries a round may hold, by the type of the round
EntriesOfType(type) ==
    IF type = "normal"
    THEN [agent : {1}, kind : {"ok"}, chars : TextLengths]
         \cup [agent : {1}, kind : {"failed", "error"}, chars : {0}]
    ELSE [agent : {1}, kind : {"response"}, chars : TextLengths]
         \cup [agent : {1}, kind : {"error"}, chars : {0}]

\* the shapes of a round: its type and no or one entry
RoundShapes ==
    UNION {[type : {t}, contributions : {<<>>} \cup {<<e>> : e \in EntriesOfType(t)}] :
              t \in {"normal", "broadcast_question"}}

\* the round of shape sh at position i of a log
RoundAt(sh, i) ==
    [type |-> sh.type, round |-> i,
     contributions |->
        [j \in 1..Len(sh.contributions) |->
            [agent |-> sh.contributions[j].agent,
             kind  |-> sh.contributions[j].kind,
             round |-> i,
             chars |-> sh.contributions[j].chars]]]

\* the engine holding any round log of at most MaxLogLen entries
InitDigest ==
    /\ InitEngineFields({"cli"}, {FALSE}, {MaxRounds}, 0)
    /\ agents = [i \in 1..NumAgents |-> i]
    /\ \E n \in 0..MaxLogLen : \E f \in [1..n -> RoundShapes] :
          discussion_log = [i \in 1..n |-> RoundAt(f[i], i)]
    /\ InitBroker
    /\ InitSession

\* a call of _get_current_discussion_context
GetContext ==
    /\ pc = "idle"
    /\ current_history' = Digest(discussion_log)
    /\ pc' = "context"
    /\ UNCHANGED <<interface, agents, assessments, decision_call,
                   user_participation, max_rounds, is_running, current_round,
                   skip_remaining_agents, discussion_log, user_interventions,
                   additional_info, messages, skip_current_round,
                   terminate_discussion, round_log, agent_idx, result,
                   last_prompt, invocations, handled, budget>>
    /\ UNCHANGED <<brokerVars, sessionVars, stop_call>>

SpecDigest == InitDigest /\ [][GetContext]_vars

(***************************************************************************)
(* _assess_discussion_quality applied to given round logs.                 *)
(***************************************************************************)
\* the participant lists: none, or the first n participants
AgentLists == {[i \in 1..n |-> i] : n \in 0..MaxParticipants}

\* a round in which the first k participants of ags have an entry: all of
\* them with a text, or all of them failed
QualityShapes(ags) ==
    [type : {"normal", "broadcast_question"}, k : 0..Len(ags),
     failed : BOOLEAN, chars : {TruncateAt + 1}]

QualityRound(sh, i) ==
    [type |-> sh.type, round |-> i,
     contributions |->
        [j \in 1..sh.k |->
            [agent |-> j,
             kind  |-> IF sh.failed THEN "error"
                       ELSE IF sh.type = "normal" THEN "ok" ELSE "response",
             round |-> i,
             chars |-> IF sh.failed THEN 0 ELSE sh.chars]]]

\* the engine with any of the participant lists, holding any log of at
\* most MaxRounds rounds of these participants
InitQuality ==
    /\ InitEngineFields({"cli"}, {FALSE}, {MaxRounds}, 0)
    /\ agents \in AgentLists
    /\ \E n \in 0..MaxRounds : \E f \in [1..n -> QualityShapes(agents)] :
          discussion_log = [i \in 1..n |-> QualityRound(f[i], i)]
    /\ InitBroker
    /\ InitSession

\* a call of _assess_discussion_quality; two calls are explored
AssessQuality ==
    /\ pc \in {"idle", "reworded"}
    /\ Len(assessments) < 2
    /\ assessments' = Append(assessments,
                             [log |-> discussion_log,
                              quality |-> assess_discussion_quality(discussion_log, agents)])
    /\ UNCHANGED <<interface, agents, decision_call, user_participation,
                   max_rounds, is_running, current_round,
                   skip_remaining_agents, discussion_log, user_interventions,
                   additional_info, messages, skip_current_round,
                   terminate_discussion, pc, round_log, agent_idx,
                   current_history, result, last_prompt, invocations, handled,
                   budget>>
    /\ UNCHANGED <<brokerVars, sessionVars, stop_call>>

\* The same rounds with another wording of the model's answers: between two
\* assessments the text of one entry of the log gets another length.
Reword ==
    /\ pc = "idle"
    /\ pc' = "reworded"
    /\ Len(assessments) = 1
    /\ \E p \in Positions(discussion_log), c \in TextLengths \ {0} :
          /\ EntryAt(discussion_log, p).chars > 0
          /\ EntryAt(discussion_log, p).chars # c
          /\ discussion_log' =
                [discussion_log EXCEPT ![p[1]].contributions[p[2]].chars = c]
    /\ UNCHANGED <<interface, agents, assessments, decision_call,
                   user_participation, max_rounds, is_running, current_round,
                   skip_remaining_agents, user_interventions,
                   additional_info, messages, skip_current_round,
                   terminate_discussion, round_log, agent_idx,
                   current_history, result, last_prompt, invocations, handled,
                   budget>>
    /\ UNCHANGED <<brokerVars, sessionVars, stop_call>>

NextQuality ==
    \/ AssessQuality
    \/ Reword

SpecQuality == InitQuality /\ [][NextQuality]_vars

\* start_discussion called once more on an engine whose earlier call has
\* returned (lines 257-258): nothing but is_running and current_round is
\* reset, and the caller still holds the record returned before.  Further
\* calls are explored while the round log has at most MaxRounds entries.
StartDiscussionAgain ==
    /\ pc = "done"
    /\ Len(discussion_log) <= MaxRounds
    /\ is_running' = TRUE
    /\ current_round' = 0
    /\ pc' = "loop"
    /\ decision_call' = "none"
    /\ UNCHANGED <<interface, agents, assessments, user_participation,
                   max_rounds, skip_remaining_agents, discussion_log,
                   user_interventions, additional_info, messages,
                   skip_current_round, terminate_discussion, round_log,
                   agent_idx, current_history, result, last_prompt,
                   invocations, handled, budget>>
    /\ UNCHANGED <<brokerVars, sessionVars, stop_call>>

NextRerun ==
    \/ NextEngine
    \/ StartDiscussionAgain

\* an engine asked for single-round discussions, with the CLI's interface
\* and one abnormal event
InitRerun ==
    /\ InitEngine({"cli"}, BOOLEAN, {1}, 1)
    /\ InitBroker
    /\ InitSession

SpecRerun == InitRerun /\ [][NextRerun]_vars


(***************************************************************************)
(* UserInteractionManager                                                  *)
(***************************************************************************)
\* submit_intervention (lines 307-323): the id is built from the clock, the
\* object is queued with status pending.
SubmitIntervention(kinds) ==
    /\ Len(interventions) < MaxSubmit
    /\ \E k \in kinds :
          interventions' = Append(interventions,
                                  [type |-> k.type, arg |-> k.arg,
                                   intervention_id |-> clock,
                                   status |-> "pending", response |-> "none",
                                   at_round |-> 0, handler_raised |-> FALSE,
                                   resolved_at |-> 0])
    /\ pending_interventions' = Append(pending_interventions, Len(interventions) + 1)
    /\ UNCHANGED <<active_interventions, intervention_history, stop_processing,
                   clock, proc, executions>>
    /\ UNCHANGED <<engineVars, sessionVars, stopper, reader>>

\* time passes between two readings of datetime.now()
Tick ==
    /\ clock < Len(interventions)
    /\ clock' = clock + 1
    /\ UNCHANGED <<interventions, pending_interventions, active_interventions,
                   intervention_history, stop_processing, proc, executions>>
    /\ UNCHANGED <<engineVars, sessionVars, stopper, reader>>

\* _process_interventions, the loop condition (line 338)
ConsumerCheck ==
    /\ proc["consumer"].pc = "loop"
    /\ proc' = [proc EXCEPT !["consumer"].pc =
                    IF LoopContinues(stop_processing) THEN "get" ELSE "exit"]
    /\ UNCHANGED <<interventions, pending_interventions, active_interventions,
                   intervention_history, stop_processing, clock, executions>>
    /\ UNCHANGED <<engineVars, sessionVars, stopper, reader>>

\* _process_interventions, get(timeout=1) (lines 340-344): an object is
\* claimed, or queue.Empty sends the thread back to the loop condition
ConsumerGet ==
    /\ proc["consumer"].pc = "get"
    /\ IF pending_interventions # <<>>
       THEN /\ proc' = [proc EXCEPT !["consumer"].pc = "h_status",
                                    !["consumer"].obj = QueueGet(pending_interventions).item]
            /\ pending_interventions' = QueueGet(pending_interventions).rest
       ELSE /\ proc' = [proc EXCEPT !["consumer"].pc = "loop"]
            /\ UNCHANGED pending_interventions
    /\ UNCHANGED <<interventions, active_interventions, intervention_history,
                   stop_processing, clock, executions>>
    /\ UNCHANGED <<engineVars, sessionVars, stopper, reader>>

\* get_intervention (lines 76-83) returning an object, which the caller then
\* hands to handle_intervention
CallerGet ==
    /\ proc["caller"].pc = "idle"
    /\ pending_interventions # <<>>
    /\ proc' = [proc EXCEPT !["caller"].pc = "h_status",
                            !["caller"].obj = QueueGet(pending_interventions).item,
                            !["caller"].raised = FALSE]
    /\ pending_interventions' = QueueGet(pending_interventions).rest
    /\ UNCHANGED <<interventions, active_interventions, intervention_history,
                   stop_processing, clock, executions>>
    /\ UNCHANGED <<engineVars, sessionVars, stopper, reader>>

\* handle_intervention, line 87
HandleStatus(p) ==
    /\ proc[p].pc = "h_status"
    /\ interventions' = [interventions EXCEPT ![proc[p].obj].status = "processing"]
    /\ proc' = [proc EXCEPT ![p].pc = "h_active"]
    /\ UNCHANGED <<pending_interventions, active_interventions,
                   intervention_history, stop_processing, clock, executions>>
    /\ UNCHANGED <<engineVars, sessionVars, stopper, reader>>

\* handle_intervention, line 88
HandleActive(p) ==
    /\ proc[p].pc = "h_active"
    /\ active_interventions' =
          ActivePut(active_interventions,
                    interventions[proc[p].obj].intervention_id, proc[p].obj)
    /\ proc' = [proc EXCEPT ![p].pc = "h_exec"]
    /\ UNCHANGED <<interventions, pending_interventions, intervention_history,
                   stop_processing, clock, executions>>
    /\ UNCHANGED <<engineVars, sessionVars, stopper, reader>>

\* handle_intervention, lines 90-98: the handler runs; its result or its
\* exception settles the status
HandleExecute(p) ==
    /\ proc[p].pc = "h_exec"
    /\ \E out \in execute_intervention(interventions[proc[p].obj]) :
          /\ interventions' =
                [interventions EXCEPT
                   ![proc[p].obj].status = AfterHandler(out.raised).status,
                   ![proc[p].obj].response = AfterHandler(out.raised).response,
                   ![proc[p].obj].at_round = current_round,
                   ![proc[p].obj].handler_raised = out.raised,
                   ![proc[p].obj].resolved_at =
                        1 + Cardinality({o \in 1..Len(interventions) :
                                            interventions[o].resolved_at > 0})]
          /\ proc' = IF AfterHandler(out.raised).propagate
                     THEN [proc EXCEPT ![p] = [pc |-> Resume(p), obj |-> 0,
                                               raised |-> p = "caller"]]
                     ELSE [proc EXCEPT ![p].pc = "h_hist"]
          /\ skip_current_round' = (skip_current_round \/ out.attr = "skip_current_round")
          /\ terminate_discussion' = (terminate_discussion \/ out.attr = "terminate_discussion")
          /\ messages' = IF out.attr = "notified"
                         THEN [a \in Agents |->
                                 update_context(messages[a], interventions[proc[p].obj].arg)]
                         ELSE messages
    /\ executions' = [executions EXCEPT ![proc[p].obj] = @ + 1]
    /\ UNCHANGED <<pending_interventions, active_interventions,
                   intervention_history, stop_processing, clock>>
    /\ UNCHANGED <<interface, agents, assessments, decision_call,
                   user_participation, max_rounds, is_running,
                   current_round, skip_remaining_agents, discussion_log,
                   user_interventions, additional_info, pc, round_log,
                   agent_idx, current_history, result, last_prompt,
                   invocations, handled, budget>>
    /\ UNCHANGED <<sessionVars, stopper, reader, stop_call>>

\* handle_intervention, line 100
HandleHistory(p) ==
    /\ proc[p].pc = "h_hist"
    /\ intervention_history' = Append(intervention_history, proc[p].obj)
    /\ proc' = [proc EXCEPT ![p].pc = "h_del"]
    /\ UNCHANGED <<interventions, pending_interventions, active_interventions,
                   stop_processing, clock, executions>>
    /\ UNCHANGED <<engineVars, sessionVars, stopper, reader>>

\* handle_intervention, lines 101-103: the del raises KeyError when the key
\* is gone; the consumer's loop catches it, a caller receives it
HandleDelete(p) ==
    /\ proc[p].pc = "h_del"
    /\ LET k == interventions[proc[p].obj].intervention_id IN
       /\ active_interventions' = ActiveDel(active_interventions, k)
       /\ proc' = [proc EXCEPT ![p] = [pc     |-> Resume(p),
                                       obj    |-> 0,
                                       raised |-> ~ActiveHas(active_interventions, k)]]
    /\ UNCHANGED <<interventions, pending_interventions, intervention_history,
                   stop_processing, clock, executions>>
    /\ UNCHANGED <<engineVars, sessionVars, stopper, reader>>

\* clear_pending_interventions (lines 360-366): the queue is emptied; the
\* objects taken from it are dropped as they are
ClearPending ==
    /\ pending_interventions # <<>>
    /\ pending_interventions' = <<>>
    /\ UNCHANGED <<interventions, active_interventions, intervention_history,
                   stop_processing, clock, proc, executions>>
    /\ UNCHANGED <<engineVars, sessionVars, stopper, reader>>

\* stop_processing (lines 348-352)
StopProcessing ==
    /\ ~stop_processing
    /\ stop_processing' = TRUE
    /\ stopper' = "joining"
    /\ UNCHANGED <<interventions, pending_interventions, active_interventions,
                   intervention_history, clock, proc, executions>>
    /\ UNCHANGED <<engineVars, sessionVars, reader>>

\* stop_processing, lines 351-352: join(timeout=5) returns when the consumer
\* thread has ended or when the five seconds are over, whichever is first.
StopJoin ==
    /\ stopper = "joining"
    /\ stopper' = IF proc["consumer"].pc = "exit" THEN "joined" ELSE "timed_out"
    /\ UNCHANGED <<interventions, pending_interventions, active_interventions,
                   intervention_history, stop_processing, clock, proc, executions>>
    /\ UNCHANGED <<engineVars, sessionVars, reader>>

NextBroker ==
    \/ SubmitIntervention(SubmitKinds)
    \/ Tick
    \/ ConsumerCheck
    \/ ConsumerGet
    \/ CallerGet
    \/ \E p \in Procs : HandleStatus(p)
    \/ \E p \in Procs : HandleActive(p)
    \/ \E p \in Procs : HandleExecute(p)
    \/ \E p \in Procs : HandleHistory(p)
    \/ \E p \in Procs : HandleDelete(p)
    \/ ClearPending
    \/ StopProcessing

\* the broker alone, beside an engine that is not running
InitBrokerOnly ==
    /\ InitEngine({"cli"}, {FALSE}, {MaxRounds}, 0)
    /\ InitBroker
    /\ InitSession

SpecBroker == InitBrokerOnly /\ [][NextBroker]_vars

\* an engine running a discussion without failures or console input, while
\* commands are submitted to the broker and resolved by its consumer thread
InitWired ==
    /\ InitEngine(Interfaces, BOOLEAN, 1..MaxRounds, 0)
    /\ InitBroker
    /\ InitSession

NextWired ==
    \/ NextEngine
    \/ SubmitIntervention(CommandKinds)
    \/ ConsumerCheck
    \/ ConsumerGet
    \/ HandleStatus("consumer")
    \/ HandleActive("consumer")
    \/ HandleExecute("consumer")
    \/ HandleHistory("consumer")
    \/ HandleDelete("consumer")

SpecWired == InitWired /\ [][NextWired]_vars

\* the broker with its consumer thread never stopped and scheduled fairly:
\* interventions are submitted, the queue may be cleared
ConsumerStep ==
    \/ ConsumerCheck
    \/ ConsumerGet
    \/ HandleStatus("consumer")
    \/ HandleActive("consumer")
    \/ HandleExecute("consumer")
    \/ HandleHistory("consumer")
    \/ HandleDelete("consumer")

NextBrokerLive ==
    \/ SubmitIntervention(SubmitKinds)
    \/ Tick
    \/ ClearPending
    \/ ConsumerStep

SpecBrokerLive == InitBrokerOnly /\ [][NextBrokerLive]_vars /\ WF_vars(ConsumerStep)

\* the broker whose consumer thread is scheduled fairly and whose handlers
\* return, stopped at some moment by a thread calling stop_processing
NextBrokerStop ==
    \/ SubmitIntervention(SubmitKinds)
    \/ Tick
    \/ ConsumerStep
    \/ StopProcessing
    \/ StopJoin

SpecBrokerStop ==
    InitBrokerOnly /\ [][NextBrokerStop]_vars
        /\ WF_vars(ConsumerStep) /\ WF_vars(StopJoin)

(***************************************************************************)
(* SessionHandler                                                          *)
(***************************************************************************)
\* the clock advances
Advance ==
    /\ wall < MaxClock
    /\ wall' = wall + 1
    /\ last_call' = NoCall
    /\ mut_result' = NoMut
    /\ UNCHANGED <<sessions, active_sessions, sweeper, creator, mutator,
                   destroyed>>
    /\ UNCHANGED <<engineVars, brokerVars>>

\* create_session, lines 75-86: the id is generated and the clock is read
CreateRead ==
    /\ creator.pc = "idle"
    /\ Len(sessions) < NumSessions
    /\ creator' = [pc |-> "insert", now |-> wall]
    /\ last_call' = NoCall
    /\ mut_result' = NoMut
    /\ UNCHANGED <<sessions, active_sessions, wall, sweeper, mutator,
                   destroyed>>
    /\ UNCHANGED <<engineVars, brokerVars>>

\* create_session, lines 88-92: the entry is stored under the lock
CreateInsert ==
    /\ creator.pc = "insert"
    /\ sessions' = Append(sessions, [last_activity |-> creator.now, data |-> FALSE])
    /\ active_sessions' = active_sessions \cup {Len(sessions) + 1}
    /\ creator' = [pc |-> "idle", now |-> 0]
    /\ last_call' = NoCall
    /\ mut_result' = NoMut
    /\ UNCHANGED <<wall, sweeper, mutator, destroyed>>
    /\ UNCHANGED <<engineVars, brokerVars>>

\* validate_session (lines 94-120), one critical section
ValidateSession ==
    /\ \E sid \in SessionIds :
          /\ sessions' = validate_session(sid).objs
          /\ active_sessions' = validate_session(sid).active
          /\ last_call' = CallRecord("validate_session", sid, validate_session(sid))
    /\ mut_result' = NoMut
    /\ UNCHANGED <<wall, sweeper, creator, mutator, destroyed>>
    /\ UNCHANGED <<engineVars, brokerVars>>

\* get_discussion_data (lines 234-248): validate_session, then the data
GetDiscussionData ==
    /\ \E sid \in SessionIds :
          /\ sessions' = validate_session(sid).objs
          /\ active_sessions' = validate_session(sid).active
          /\ last_call' = CallRecord("get_discussion_data", sid, validate_session(sid))
    /\ mut_result' = NoMut
    /\ UNCHANGED <<wall, sweeper, creator, mutator, destroyed>>
    /\ UNCHANGED <<engineVars, brokerVars>>

\* update_session_activity (lines 122-136), one critical section
UpdateSessionActivity ==
    /\ \E sid \in SessionIds :
          /\ sessions' = update_session_activity(sid).objs
          /\ active_sessions' = update_session_activity(sid).active
          /\ last_call' = CallRecord("update_session_activity", sid,
                                     update_session_activity(sid))
    /\ mut_result' = NoMut
    /\ UNCHANGED <<wall, sweeper, creator, mutator, destroyed>>
    /\ UNCHANGED <<engineVars, brokerVars>>

\* get_session_data (lines 138-149), one critical section
GetSessionData ==
    /\ \E sid \in SessionIds :
          last_call' = CallRecord("get_session_data", sid, get_session_data(sid))
    /\ mut_result' = NoMut
    /\ UNCHANGED <<sessions, active_sessions, wall, sweeper, creator,
                   mutator, destroyed>>
    /\ UNCHANGED <<engineVars, brokerVars>>

\* destroy_session (lines 268-284), one critical section
DestroySession ==
    /\ \E sid \in SessionIds :
          /\ active_sessions' = destroy_session(sid).active
          /\ destroyed' = IF destroy_session(sid).ok
                          THEN destroyed \cup {sid} ELSE destroyed
    /\ last_call' = NoCall
    /\ mut_result' = NoMut
    /\ UNCHANGED <<sessions, wall, sweeper, creator, mutator>>
    /\ UNCHANGED <<engineVars, brokerVars>>

\* update_discussion_data, lines 226-228: validate_session; an invalid
\* session returns False, a valid one leaves the caller with session_data
UpdateDiscussionDataValidate ==
    /\ mutator.pc = "idle"
    /\ \E sid \in SessionIds :
          /\ sessions' = validate_session(sid).objs
          /\ active_sessions' = validate_session(sid).active
          /\ IF validate_session(sid).ok
             THEN /\ mutator' = [pc |-> "apply", sid |-> sid]
                  /\ mut_result' = NoMut
             ELSE /\ mut_result' = [sid |-> sid, ok |-> FALSE, present |-> FALSE]
                  /\ UNCHANGED mutator
    /\ last_call' = NoCall
    /\ UNCHANGED <<wall, sweeper, creator, destroyed>>
    /\ UNCHANGED <<engineVars, brokerVars>>

\* update_discussion_data, lines 230-232: the lock is taken again, the
\* data of the session_data object is updated, True is returned
UpdateDiscussionDataApply ==
    /\ mutator.pc = "apply"
    /\ sessions' = [sessions EXCEPT ![mutator.sid].data = TRUE]
    /\ mut_result' = [sid |-> mutator.sid, ok |-> TRUE,
                      present |-> mutator.sid \in active_sessions]
    /\ mutator' = [pc |-> "idle", sid |-> 0]
    /\ last_call' = NoCall
    /\ UNCHANGED <<active_sessions, wall, sweeper, creator, destroyed>>
    /\ UNCHANGED <<engineVars, brokerVars>>

\* _cleanup_expired_sessions, line 337: the clock is read before the lock
SweepRead ==
    /\ sweeper.pc = "read"
    /\ sweeper' = [pc |-> "scan", now |-> wall]
    /\ last_call' = NoCall
    /\ mut_result' = NoMut
    /\ UNCHANGED <<sessions, active_sessions, wall, creator, mutator,
                   destroyed>>
    /\ UNCHANGED <<engineVars, brokerVars>>

\* _cleanup_expired_sessions, lines 340-350: under the lock the expired
\* entries are collected and deleted
SweepScan ==
    /\ sweeper.pc = "scan"
    /\ active_sessions' = active_sessions \ expired_sessions(sweeper.now)
    /\ sweeper' = [sweeper EXCEPT !.pc = "sleep"]
    /\ last_call' = NoCall
    /\ mut_result' = NoMut
    /\ UNCHANGED <<sessions, wall, creator, mutator, destroyed>>
    /\ UNCHANGED <<engineVars, brokerVars>>

\* _cleanup_worker, lines 357-360: time.sleep(cleanup_interval) returns and
\* the loop goes round
SweepWake ==
    /\ sweeper.pc = "sleep"
    /\ sweeper' = [pc |-> "read", now |-> 0]
    /\ last_call' = NoCall
    /\ mut_result' = NoMut
    /\ UNCHANGED <<sessions, active_sessions, wall, creator, mutator,
                   destroyed>>
    /\ UNCHANGED <<engineVars, brokerVars>>

SweepStep ==
    \/ SweepRead
    \/ SweepScan
    \/ SweepWake

NextSession ==
    \/ Advance
    \/ CreateRead
    \/ CreateInsert
    \/ ValidateSession
    \/ GetDiscussionData
    \/ UpdateSessionActivity
    \/ GetSessionData
    \/ DestroySession
    \/ UpdateDiscussionDataValidate
    \/ UpdateDiscussionDataApply
    \/ SweepStep

\* the session store alone
InitSessionOnly ==
    /\ InitEngine({"cli"}, {FALSE}, {MaxRounds}, 0)
    /\ InitBroker
    /\ InitSession

SpecSession == InitSessionOnly /\ [][NextSession]_vars

\* the cleanup thread scheduled fairly, beside callers that create, touch
\* and destroy sessions while the clock advances
NextSessionLive ==
    \/ Advance
    \/ CreateRead
    \/ CreateInsert
    \/ ValidateSession
    \/ UpdateSessionActivity
    \/ DestroySession
    \/ SweepStep

SpecSessionLive == InitSessionOnly /\ [][NextSessionLive]_vars /\ WF_vars(SweepStep)

(***************************************************************************)
(* Properties of the round scheduler.                                      *)
(***************************************************************************)
Range(q) == {q[i] : i \in 1..Len(q)}
HandledOf(type) == {h \in Range(handled) : h.type = type}
\* the round-log entries of normal round r
EntriesOf(r) == {e \in Range(discussion_log) : e.type = "normal" /\ e.round = r}
\* the engine is between the start and the return of round r
InRound(r) == current_round = r /\ pc \in {"agents", "checkpoint", "round_end"}
IsFailed(c) == c.kind \in {"failed", "error"}
NumFailed(q) == Cardinality({i \in 1..Len(q) : IsFailed(q[i])})
\* the contributions are those of participants 1..n, one each, in order
OneEach(q, n) == Len(q) = n /\ \A i \in 1..n : q[i].agent = i

\* C1: after Terminate (type interrupt) is handled at the checkpoint after
\* participant j of round r, no participant is invoked any more, the entry
\* of round r holds exactly j contributions, and start_discussion returns
\* the interrupted result.
C1_TerminateStops ==
    \A h \in HandledOf("interrupt") :
        /\ invocations = h.invocations
        /\ InRound(h.round) => OneEach(round_log, h.after)
        /\ \A e \in EntriesOf(h.round) : OneEach(e.contributions, h.after)
        /\ pc = "done" =>
              /\ result.status = "interrupted"
              /\ EntriesOf(h.round) # {}
              /\ \A e \in Range(discussion_log) : e.type = "normal" => e.round <= h.round

\* Terminate after participant 2 of 3 in round 1, and the run has returned.
C1_Witness ==
    /\ pc = "done"
    /\ NumAgents >= 3
    /\ \E h \in HandledOf("interrupt") : h.round = 1 /\ h.after = 2
    /\ result.status = "interrupted"

\* C2: when SkipRound is handled at the checkpoint after participant j of a
\* round, that round's entry holds exactly the contributions of
\* participants 1..j and none of participants j+1..k.
C2_SkipRoundCuts ==
    \A h \in HandledOf("skip_round") :
        /\ InRound(h.round) => OneEach(round_log, h.after)
        /\ \A e \in EntriesOf(h.round) :
              /\ OneEach(e.contributions, h.after)
              /\ \A i \in 1..Len(e.contributions) :
                    e.contributions[i].agent \notin (h.after + 1)..NumAgents
        /\ (pc = "done" \/ current_round > h.round) => EntriesOf(h.round) # {}

\* SkipRound after participant 1, and the round's entry is in the log.
C2_Witness ==
    \E h \in HandledOf("skip_round") :
        /\ h.after = 1
        /\ h.after < NumAgents
        /\ \E e \in EntriesOf(h.round) : Len(e.contributions) = 1

\* C3: a round without intervention in which participants fail (by raising
\* or by returning a failure) still yields one contribution per
\* participant; and in a run without intervention every failure is marked
\* in the log and the scheduler goes on: the run is neither stopped nor
\* ended by the failures.
C3_FailuresTolerated ==
    /\ \A e \in Range(discussion_log) :
          (e.type = "normal" /\ \A h \in Range(handled) : h.round # e.round)
              => OneEach(e.contributions, NumAgents)
    /\ handled = <<>> =>
        /\ pc \in {"loop", "finish", "done"} =>
              NumFailed([i \in 1..(Len(discussion_log) * NumAgents) |->
                           discussion_log[((i - 1) \div NumAgents) + 1]
                              .contributions[((i - 1) % NumAgents) + 1]])
                 = MaxEvents - budget
        /\ pc \in {"loop", "agents", "checkpoint", "round_end", "finish"} => is_running
        /\ pc = "loop" => Len(discussion_log) = current_round
        /\ pc = "done" => result.status = "completed" /\ Len(discussion_log) = max_rounds

\* A first round with a raising and a failure-returning participant, and
\* the second round under way.
C3_Witness ==
    /\ handled = <<>>
    /\ current_round = 2
    /\ pc = "agents"
    /\ \E e \in EntriesOf(1) :
          /\ \E i \in 1..Len(e.contributions) : e.contributions[i].kind = "error"
          /\ \E i \in 1..Len(e.contributions) : e.contributions[i].kind = "failed"
          /\ NumFailed(e.contributions) < NumAgents

\* C4: with no intervention and no scheduler-internal failure, the run
\* returns the completed record, whose round log has exactly max_rounds
\* rounds of exactly one contribution per participant.
C4_CompleteRun ==
    (pc = "done" /\ handled = <<>> /\ result.status # "error") =>
        /\ result.status = "completed"
        /\ Len(discussion_log) = max_rounds
        /\ \A n \in 1..Len(discussion_log) :
              /\ discussion_log[n].type = "normal"
              /\ discussion_log[n].round = n
              /\ OneEach(discussion_log[n].contributions, NumAgents)

\* A completed run of two rounds without interventions.
C4_Witness ==
    /\ pc = "done"
    /\ handled = <<>>
    /\ result.status = "completed"
    /\ max_rounds = 2
    /\ Len(discussion_log) = 2
    /\ Len(discussion_log[1].contributions) + Len(discussion_log[2].contributions)
          = 2 * NumAgents

\* C5: information added after the last participant of round r is in the
\* prompt of every participant invoked in a later round, and no prompt
\* carries information that was not yet added.
C5_InfoInLaterPrompts ==
    /\ \A h \in HandledOf("add_information") :
          (h.after = NumAgents /\ last_prompt.round > h.round) =>
              h.information \in Range(last_prompt.notes)
    /\ Range(last_prompt.notes) \subseteq Range(additional_info)

\* C6: the digest in the prompt of participant i of a round contains the
\* texts participants 1..i-1 produced in that round.
C6_SeesEarlierOfRound ==
    (InRound(last_prompt.round) /\ last_prompt.agent > 1) =>
        \A j \in 1..(last_prompt.agent - 1) :
            (j <= Len(round_log) /\ HasText(round_log[j])) =>
                \E d \in Range(last_prompt.history.rounds) :
                    round_log[j] \in Range(d.lines)


(***************************************************************************)
(* Properties of the intervention broker.                                  *)
(***************************************************************************)
Objects == 1..Len(interventions)
IsCommand(o, command) ==
    interventions[o].type = "direct_command" /\ interventions[o].arg = command
Resolved(o) == interventions[o].status = "completed"
\* the objects a thread is handling at the moment
InHandler == {proc[p].obj : p \in {q \in Procs : proc[q].pc \notin {"loop", "get", "idle", "exit"}}}
Occurrences(o) == Cardinality({i \in 1..Len(intervention_history) : intervention_history[i] = o})
\* the engine enters a round / calls a participant in this step
StartsRound == pc = "loop" /\ pc' = "agents"
CallsParticipant == invocations' # invocations

\* C7: once a terminate_discussion command is resolved by the broker the
\* scheduler starts no further round, and once a skip_round command is
\* resolved during a round the scheduler invokes no further participant of
\* that round.
C7_CommandsObserved ==
    [][ /\ (\E o \in Objects : IsCommand(o, "terminate_discussion") /\ Resolved(o))
            => ~StartsRound
        /\ (\E o \in Objects : /\ IsCommand(o, "skip_round") /\ Resolved(o)
                               /\ interventions[o].at_round = current_round
                               /\ InRound(current_round))
            => ~CallsParticipant ]_vars

\* C8: an add_information intervention with a non-empty text, once handled,
\* has status completed, its text is in the engine's case context and every
\* participant was notified of it.
C8_InformationAdded ==
    \A i \in 1..Len(intervention_history) :
        LET iv == interventions[intervention_history[i]] IN
        (iv.type = "add_information" /\ iv.arg # "") =>
            /\ iv.status = "completed"
            /\ iv.arg \in Range(additional_info)
            /\ \A a \in Agents : iv.arg \in Range(messages[a])

\* the status order pending -> processing -> (completed | failed)
StatusStep(from, to) ==
    \/ from = "pending" /\ to = "processing"
    \/ from = "processing" /\ to \in {"completed", "failed"}

C9_StateInvariant ==
    \A o \in Objects :
        /\ executions[o] <= 1
        /\ Occurrences(o) <= 1
        /\ Occurrences(o) = 1 => interventions[o].status \in {"completed", "failed"}
        /\ (interventions[o].status \in {"completed", "failed"} /\ o \notin InHandler)
              => Occurrences(o) = 1
        /\ interventions[o].status = "pending" => executions[o] = 0

C9_Transition ==
    \A o \in Objects :
        interventions'[o].status # interventions[o].status =>
            StatusStep(interventions[o].status, interventions'[o].status)

\* C9: the status of every intervention moves only along pending ->
\* processing -> completed or failed, the intervention is appended to the
\* history exactly once and only with a terminal status, and its handler
\* runs at most once, whichever thread claims it.
C9_Lifecycle == []C9_StateInvariant /\ [][C9_Transition]_vars

\* Two interventions, both handled and in the history, one of them failed
\* and one completed.
C9_Witness ==
    /\ Len(intervention_history) = 2
    /\ intervention_history[1] # intervention_history[2]
    /\ \A o \in Objects : executions[o] = 1 /\ o \notin InHandler
    /\ \E o \in Objects : interventions[o].status = "failed"
    /\ \E o \in Objects : interventions[o].status = "completed"

\* C10: at most one intervention is being processed at any moment.
C10_OneAtATime ==
    Cardinality({o \in Objects :
                    /\ interventions[o].status = "processing"
                    /\ \E e \in active_interventions : e.obj = o}) <= 1

\* C11: the history lists the resolved interventions in the order they were
\* submitted, and their resolution times do not decrease along the list.
C11_HistoryFIFO ==
    \A i, j \in 1..Len(intervention_history) :
        i < j =>
            /\ intervention_history[i] < intervention_history[j]
            /\ interventions[intervention_history[i]].resolved_at
                  <= interventions[intervention_history[j]].resolved_at

C12_StateInvariant ==
    /\ \A o \in Objects :
          interventions[o].handler_raised =>
              /\ interventions[o].status = "failed"
              /\ interventions[o].response = "error"
              /\ o \notin InHandler => Occurrences(o) = 1
    /\ proc["consumer"].pc = "exit" => stop_processing

\* an exception leaves handle_intervention only from its del statement
C12_Transition ==
    \A p \in Procs :
        (proc'[p].raised /\ ~proc[p].raised) => proc[p].pc = "h_del"

\* C12: what a handler raises is caught in handle_intervention: the
\* intervention gets status failed and a response carrying the error, it is
\* still appended to the history, the exception does not reach the caller
\* and the consumer thread keeps running.
C12_HandlerErrorsCaught == []C12_StateInvariant /\ [][C12_Transition]_vars

\* An intervention whose handler raised is in the history as failed, its
\* thread has left handle_intervention and the consumer is still looping.
C12_Witness ==
    /\ \E o \in Objects :
          /\ interventions[o].handler_raised
          /\ interventions[o].status = "failed"
          /\ Occurrences(o) = 1
          /\ o \notin InHandler
    /\ proc["consumer"].pc \in {"loop", "get"}
    /\ ~stop_processing

\* C13: for every submitted intervention get_intervention_status finds the
\* intervention under its id, with one of the four statuses, from the
\* moment submit_intervention has returned the id.
C13_StatusAlwaysFound ==
    \A o \in Objects :
        /\ get_intervention_status(interventions[o].intervention_id) = o
        /\ interventions[o].status \in {"pending", "processing", "completed", "failed"}

\* C14: with the consumer thread running and scheduled fairly, every
\* submitted intervention eventually has a terminal status and is in the
\* history.
C14_EventuallyResolved ==
    \A o \in 1..MaxSubmit :
        (Len(interventions) >= o) ~>
            (/\ Len(interventions) >= o
             /\ interventions[o].status \in {"completed", "failed"}
             /\ Occurrences(o) = 1)


(***************************************************************************)
(* Properties of the session store.                                        *)
(***************************************************************************)
\* C15: on a session that was not destroyed, validate_session succeeds when
\* the time since its last activity is at most session_timeout and fails
\* when it is more, whatever the cleanup thread did in between.
C15_ValidateBoundary ==
    (last_call.op = "validate_session" /\ last_call.live) =>
        /\ last_call.elapsed <= SessionTimeout => last_call.ok
        /\ last_call.elapsed > SessionTimeout => ~last_call.ok

\* validate_session succeeds exactly at the timeout, after a sweep.
C15_Witness ==
    /\ last_call.op = "validate_session"
    /\ last_call.live
    /\ last_call.elapsed = SessionTimeout
    /\ last_call.ok
    /\ sweeper.pc = "sleep"

\* C16: a session leaves the store, other than by destroy_session, only in
\* a step at which its inactivity exceeds session_timeout.
C16_OnlyExpiredReaped ==
    [][\A sid \in active_sessions :
          (sid \notin active_sessions' /\ sid \notin destroyed')
              => wall - sessions[sid].last_activity > SessionTimeout]_vars

\* The sweep has just scanned with the current time, and a session whose
\* inactivity is exactly the timeout is still in the store.
C16_Witness ==
    /\ sweeper.pc = "sleep"
    /\ sweeper.now = wall
    /\ \E sid \in active_sessions :
          wall - sessions[sid].last_activity = SessionTimeout

\* C17: an operation called with an id that is unknown, or whose session's
\* inactivity exceeds session_timeout, returns a negative result.
C17_ExpiredIsAbsent ==
    (last_call.op # "none"
        /\ (~last_call.created \/ last_call.elapsed > SessionTimeout))
        => ~last_call.ok

\* C18: a read that succeeds sets the session's last_activity to the
\* current time.
C18_ReadsExtendLease ==
    (last_call.op \in {"validate_session", "get_session_data", "get_discussion_data"}
        /\ last_call.ok)
        => last_call.touched

\* C19: a mutating operation returns True only if the session is in the
\* store when the mutation is applied.
C19_MutationNeedsSession ==
    mut_result.ok => mut_result.present

\* a session is in the store with its lease expired
ExpiredInStore(sid) ==
    /\ sid \in active_sessions
    /\ wall - sessions[sid].last_activity > SessionTimeout

\* C20: with the cleanup thread scheduled fairly, a session that is in the
\* store with its lease expired is eventually removed, unless it is touched
\* again.
C20_ExpiredEventuallyReaped ==
    \A sid \in SessionIds : ExpiredInStore(sid) ~> ~ExpiredInStore(sid)

\* An expired session that nobody destroyed is gone after a scan of the
\* cleanup thread that read the clock past the session's lease.
C20_Witness ==
    /\ sweeper.pc = "sleep"
    /\ \E sid \in SessionIds :
          /\ Known(sid)
          /\ sid \notin active_sessions
          /\ sid \notin destroyed
          /\ sweeper.now - sessions[sid].last_activity > SessionTimeout

(***************************************************************************)
(* Properties of the aggregation and of the returned records.              *)
(***************************************************************************)
\* C21: when the decision participant's call fails while the final summary
\* is generated, the decision of the returned record is the backup summary
\* concatenated from the round log, not an error value.
C21_BackupOnDecisionFailure ==
    (pc = "done" /\ decision_call = "raised") =>
        /\ result.clinical_summary = generate_backup_summary(discussion_log).summary
        /\ result.clinical_summary.kind # "error_value"

\* C22: every call of start_discussion returns a result in one of the states
\* completed, interrupted and error that carries the number of rounds
\* completed, and the error when the state is error; when it has returned
\* is_running is false.
C22_ResultShape ==
    pc = "done" =>
        /\ result.status \in {"completed", "interrupted", "error"}
        /\ "rounds_completed" \in result.keys
        /\ result.status = "error" => ("error" \in result.keys /\ result.error # "")
        /\ ~is_running

\* the call of _handle_user_intervention between two rounds raises: it is
\* made without its argument whenever _check_user_intervention is true
BookkeepingRaises ==
    pc = "round_end" /\ check_user_intervention(user_participation, interface)

NormalRounds(log) == SelectSeq(log, LAMBDA rd : rd.type = "normal")

C23_Transition ==
    BookkeepingRaises =>
        /\ pc' = "done"
        /\ result'.status = "error"
        /\ "error" \in result'.keys /\ result'.error # ""
        /\ "clinical_summary" \notin result'.keys
        /\ result'.clinical_summary = NoSummary

C23_StateInvariant ==
    result.status = "error" =>
        /\ pc = "done"
        /\ ~is_running
        /\ decision_call = "none"
        /\ Len(NormalRounds(discussion_log)) = current_round

\* C23: an exception raised by the scheduler's own bookkeeping ends the run
\* in the error state: the returned record carries the message and no
\* decision, no further round is started, and the failure is never turned
\* into a completed record.
C23_SchedulerErrorEndsRun == []C23_StateInvariant /\ [][C23_Transition]_vars

\* The bookkeeping after round 1 of 2 raised: the error record is returned
\* and round 2 was never started.
C23_Witness ==
    /\ pc = "done"
    /\ result.status = "error"
    /\ result.error # ""
    /\ max_rounds = 2
    /\ current_round = 1
    /\ Len(NormalRounds(discussion_log)) = 1

\* C24: every intervention the engine handles, SkipRound and Terminate
\* included, is listed in user_interventions, in the order handled, and the
\* complete record aggregates that list.
C24_InterventionsRecorded ==
    /\ Len(user_interventions) = Len(handled)
    /\ \A i \in 1..Len(handled) : user_interventions[i].type = handled[i].type
    /\ (pc = "done" /\ result.status = "completed") =>
          result.process.user_interventions = user_interventions

\* C25: once start_discussion has returned a record, no later operation of
\* the engine, be it a further start_discussion or an intervention handled
\* in it, changes the round log or the intervention list the record shows.
C25_ReturnedRecordFrozen ==
    result.status = "completed" => RecordProcess = result.process

\* a round is started: the loop enters _execute_discussion_round
RoundStarts == pc = "loop" /\ pc' = "agents"

C26_StateInvariant ==
    /\ 0 <= current_round /\ current_round <= max_rounds
    /\ Len(NormalRounds(discussion_log)) <= max_rounds
    /\ \A i \in 1..Len(NormalRounds(discussion_log)) :
          /\ NormalRounds(discussion_log)[i].round \in 1..current_round
          /\ i > 1 => NormalRounds(discussion_log)[i - 1].round
                         < NormalRounds(discussion_log)[i].round

C26_Transition ==
    RoundStarts =>
        /\ is_running
        /\ HandledOf("interrupt") = {}
        /\ result.status \notin {"interrupted", "error"}
        /\ current_round' = current_round + 1

\* C26: 0 <= current_round <= max_rounds in every state; one run appends at
\* most max_rounds normal rounds, with strictly increasing indices; and no
\* round is started once the run is interrupted or has ended with an error.
C26_RoundCounter == []C26_StateInvariant /\ [][C26_Transition]_vars

\* Terminate was handled in round 1 of a two-round run: the run has
\* returned with one normal round in the log and the counter at 2.
C26_Witness ==
    /\ pc = "done"
    /\ max_rounds = 2
    /\ current_round = max_rounds
    /\ HandledOf("interrupt") # {}
    /\ Len(NormalRounds(discussion_log)) = 1
    /\ NormalRounds(discussion_log)[1].round = 1

(***************************************************************************)
(* Properties of the digest, the broadcast round and the quality score.    *)
(***************************************************************************)
\* the entries of round rd whose text is not empty
TextEntries(rd) ==
    SelectSeq(rd.contributions,
              LAMBDA c : c.kind \in {"ok", "response"} /\ c.chars > 0)

\* C27: the digest is the single sentinel line exactly when the round log
\* is empty; otherwise it covers exactly the last min(3, n) entries of the
\* log and none older; and every text in it is cut to at most 150
\* characters, followed by the ellipsis exactly when it was cut.
C27_DigestWindow ==
    pc = "context" =>
        LET n == Len(discussion_log)
            k == IF n < 3 THEN n ELSE 3
        IN  /\ current_history.sentinel <=> n = 0
            /\ Len(current_history.rounds) = k
            /\ \A i \in 1..k :
                  LET rd == discussion_log[n - k + i]
                      dr == current_history.rounds[i]
                  IN  /\ dr.type = rd.type
                      /\ dr.lines = TextEntries(rd)
                      /\ Len(dr.shown) = Len(dr.lines)
                      /\ \A j \in 1..Len(dr.lines) :
                            /\ dr.shown[j].chars <= 150
                            /\ dr.shown[j].chars =
                                  (IF dr.lines[j].chars < 150
                                   THEN dr.lines[j].chars ELSE 150)
                            /\ dr.shown[j].ellipsis <=> dr.lines[j].chars > 150

\* A log of four rounds with texts: the digest shows the last three, one
\* of its texts cut and one shown whole, and not the text of round 1.
C27_Witness ==
    /\ pc = "context"
    /\ Len(discussion_log) = 4
    /\ TextEntries(discussion_log[1]) # <<>>
    /\ Len(current_history.rounds) = 3
    /\ \E i \in 1..3 : \E j \in 1..Len(current_history.rounds[i].shown) :
          current_history.rounds[i].shown[j].ellipsis
    /\ \E i \in 1..3 : \E j \in 1..Len(current_history.rounds[i].shown) :
          ~current_history.rounds[i].shown[j].ellipsis

\* the handler resolves a broadcast question in this step
BroadcastHandled ==
    /\ Len(handled') = Len(handled) + 1
    /\ handled'[Len(handled')].type = "broadcast_question"

C28_Transition ==
    BroadcastHandled =>
        /\ Len(discussion_log') = Len(discussion_log) + 1
        /\ SubSeq(discussion_log', 1, Len(discussion_log)) = discussion_log
        /\ LET synthetic == discussion_log'[Len(discussion_log')]
           IN  /\ synthetic.type = "broadcast_question"
               /\ Len(synthetic.contributions) = NumAgents
               /\ \A i \in 1..NumAgents :
                     /\ synthetic.contributions[i].agent = agents[i]
                     /\ synthetic.contributions[i].kind \in {"response", "error"}

\* C28: resolving a broadcast question with a non-empty question appends
\* exactly one synthetic round to the round log, holding exactly one entry,
\* a response or an error, for every active participant, in the order of
\* the participant list.
C28_BroadcastRound == [][C28_Transition]_vars

\* A broadcast round in the log in which one participant failed and the
\* others answered.
C28_Witness ==
    \E n \in 1..Len(discussion_log) :
        /\ discussion_log[n].type = "broadcast_question"
        /\ Len(discussion_log[n].contributions) = NumAgents
        /\ \E i \in 1..NumAgents : discussion_log[n].contributions[i].kind = "error"
        /\ \E i \in 1..NumAgents : discussion_log[n].contributions[i].kind = "response"
        /\ \E h \in HandledOf("broadcast_question") : TRUE

\* C29: every sub-metric of a quality assessment is between 0 and 10, and
\* so is the overall score (num / den), for every round log, among them
\* the log of a discussion without participants and a log of failed
\* contributions only.
C29_ScoresInRange ==
    \A a \in Range(assessments) :
        /\ \A m \in DOMAIN a.quality.scores :
              0 <= a.quality.scores[m] /\ a.quality.scores[m] <= 10
        /\ a.quality.overall.den > 0
        /\ 0 <= a.quality.overall.num
        /\ a.quality.overall.num <= 10 * a.quality.overall.den
        /\ ~a.quality.error => DOMAIN a.quality.scores = Metrics

\* Six participants contributed: twice the number of perspectives exceeds
\* 10 and the metric is 10.
C29_Witness ==
    \E a \in Range(assessments) :
        /\ ~a.quality.error
        /\ unique_perspectives(a.log) * 2 > 10
        /\ a.quality.scores["perspective_diversity"] = 10

\* the rounds of a log without the wording of the texts
Unworded(log) ==
    [i \in 1..Len(log) |->
        [type |-> log[i].type,
         round |-> log[i].round,
         contributions |->
            [j \in 1..Len(log[i].contributions) |->
                [agent |-> log[i].contributions[j].agent,
                 kind  |-> log[i].contributions[j].kind]]]]

\* C30: two assessments of the same unchanged round log give the same
\* score; the score depends on the rounds and their entries only, not on
\* the wording of the model's texts.
C30_SameLogSameScore ==
    \A a \in Range(assessments) : \A b \in Range(assessments) :
        /\ a.log = b.log => a.quality = b.quality
        /\ Unworded(a.log) = Unworded(b.log) => a.quality = b.quality

\* The quality was assessed twice on an unchanged log of two rounds with
\* contributions, and both assessments are the same.
C30_Witness ==
    /\ Len(assessments) = 2
    /\ assessments[1].log = assessments[2].log
    /\ assessments[1].log = discussion_log
    /\ Len(discussion_log) = 2
    /\ total_contributions(discussion_log) > 0
    /\ ~assessments[1].quality.error
    /\ assessments[1].quality = assessments[2].quality

(***************************************************************************)
(* Properties of stopping, of the round loop and of the returned records.  *)
(***************************************************************************)
ConsumerLeft == proc["consumer"].pc = "exit"

\* once the consumer thread has left its loop it takes no step: it claims
\* nothing from the queue and handles nothing
C31_Transition ==
    ConsumerLeft =>
        /\ proc'["consumer"] = proc["consumer"]
        /\ (pending_interventions' # pending_interventions =>
               Len(pending_interventions') > Len(pending_interventions))

\* C31: after the stop signal the consumer thread eventually leaves its
\* loop, and from then on claims no intervention; and stop_processing
\* returns, by the end of the thread or by the join's timeout, also when a
\* handler is still in flight.
C31_StopTerminates ==
    /\ stop_processing ~> ConsumerLeft
    /\ [][C31_Transition]_vars
    /\ (stopper = "joining") ~> (stopper \in {"joined", "timed_out"})

\* stop_processing was called while a handler was in flight and returned by
\* the timeout; the consumer finished that intervention and left its loop,
\* and an intervention submitted afterwards stays in the queue.
C31_Witness ==
    /\ ConsumerLeft
    /\ stopper = "timed_out"
    /\ Len(intervention_history) = 1
    /\ Len(pending_interventions) = 1

\* the run reached the end of its rounds: as many normal rounds in the log
\* as the configuration asks for
RoundsExhausted ==
    /\ current_round = max_rounds
    /\ Len(NormalRounds(discussion_log)) = max_rounds

\* the final summary is generated in the step that leaves the loop of a run
\* that is still running, and in no other step
C32_Transition ==
    decision_call' # decision_call =>
        /\ decision_call = "none"
        /\ pc = "finish" /\ pc' = "done"
        /\ is_running
        /\ result'.status = "completed"

C32_StateInvariant ==
    /\ result.status = "completed" =>
          /\ decision_call # "none"
          /\ RoundsExhausted
          /\ Len(assessments) <= 1
    /\ result.status \in {"interrupted", "error"} =>
          /\ decision_call = "none"
          /\ assessments = <<>>
    /\ (pc = "done" /\ \E i \in 1..Len(handled) : handled[i].type = "interrupt") =>
          result.status \in {"interrupted", "error"}

\* C32: _generate_final_summary runs exactly once in a run that exhausts its
\* rounds and ends completed, and never in a run that ends interrupted or
\* with the error result.
C32_SummaryOnlyWhenCompleted == []C32_StateInvariant /\ [][C32_Transition]_vars

C32_Witness ==
    /\ pc = "done" /\ result.status = "completed"
    /\ decision_call = "ok" /\ Len(assessments) = 1
    /\ max_rounds = MaxRounds /\ handled # <<>>

\* C33: with intervention mode enabled, every participant invocation of a
\* round is followed by a checkpoint, whether the invocation succeeded,
\* returned a failure, or raised.
C33_CheckpointAfterEveryInvocation ==
    [][(pc = "agents" /\ user_participation /\ invocations' = invocations + 1)
          => pc' = "checkpoint"]_vars

\* an intervention of one of the given types was handled in round k
HandledIn(k, types) ==
    \E i \in 1..Len(handled) : handled[i].round = k /\ handled[i].type \in types

\* a round starts with the flag cleared and at the first participant
C34_Transition ==
    (pc = "loop" /\ pc' = "agents") =>
        /\ ~skip_remaining_agents'
        /\ agent_idx' = 1
        /\ round_log' = <<>>

\* the flag is set only by a skip handled in the round that is running, and
\* a round that was neither skipped nor interrupted holds an entry of every
\* participant, in order
C34_StateInvariant ==
    /\ skip_remaining_agents => HandledIn(current_round, {"skip_round"})
    /\ \A i \in 1..Len(discussion_log) :
          LET rd == discussion_log[i] IN
          rd.type = "normal" =>
             /\ \A j \in 1..Len(rd.contributions) : rd.contributions[j].agent = j
             /\ ~HandledIn(rd.round, {"skip_round", "interrupt"}) =>
                   Len(rd.contributions) = NumAgents

\* C34: a skip in round r suppresses only the remaining participants of
\* round r; when r < max_rounds, round r+1 starts with the skip flag cleared
\* and invokes every participant from the first.
C34_SkipConfinedToRound == []C34_StateInvariant /\ [][C34_Transition]_vars

C34_Witness ==
    /\ pc = "done" /\ result.status = "completed"
    /\ HandledIn(1, {"skip_round"}) /\ ~HandledIn(2, {"skip_round", "interrupt"})
    /\ Len(NormalRounds(discussion_log)) = 2
    /\ Len(NormalRounds(discussion_log)[1].contributions) = 1
    /\ Len(NormalRounds(discussion_log)[2].contributions) = NumAgents

\* C35: in the digest handed to the participants, the header of a normal
\* round carries that round's own index: every contribution shown under it
\* was made in the round the label names.
C35_DigestLabelIsRoundIndex ==
    \A i \in 1..Len(current_history.rounds) :
        LET dr == current_history.rounds[i] IN
        dr.type = "normal" =>
            \A j \in 1..Len(dr.lines) : dr.lines[j].round = dr.label

\* C36: with intervention mode enabled, when _check_user_intervention
\* reports waiting input after a round, the engine handles it and goes on
\* to the head of the round loop; the run does not end with the error
\* result because of that check.
C36_BetweenRoundsCheckContinues ==
    [][(pc = "round_end" /\ user_participation
            /\ check_user_intervention(user_participation, interface))
          => (pc' = "loop" /\ result'.status # "error")]_vars

\* C37: in an interrupted result, rounds_completed equals the number of
\* rounds actually started, that is the rounds with an entry in the log,
\* whichever round the run was terminated in.
C37_InterruptedRoundsCompleted ==
    (pc = "done" /\ result.status = "interrupted") =>
        result.rounds_completed = Len(NormalRounds(discussion_log))

\* C39: any two interventions accepted by submit_intervention get distinct
\* ids, also when both are submitted within the same tick of the clock.
C39_IdsDistinct ==
    \A i \in 1..Len(interventions) : \A j \in 1..Len(interventions) :
        i # j => interventions[i].intervention_id # interventions[j].intervention_id

(***************************************************************************)
(* get_intervention_status called by another thread while the consumer    *)
(* thread handles interventions.                                          *)
(***************************************************************************)
\* get_intervention_status, line 327: the membership test.  The caller
\* asks for an intervention the consumer has taken from the queue.
StatusLookup ==
    /\ reader.pc = "idle"
    /\ \E o \in 1..Len(interventions) :
          /\ \/ proc["consumer"].obj = o
             \/ \E i \in 1..Len(intervention_history) : intervention_history[i] = o
          /\ reader' = [NoLookup EXCEPT
                          !.pc = IF ActiveHas(active_interventions,
                                              interventions[o].intervention_id)
                                 THEN "subscript" ELSE "scan",
                          !.id = interventions[o].intervention_id,
                          !.obj = o,
                          !.claimed = TRUE]
    /\ UNCHANGED <<interventions, pending_interventions, active_interventions,
                   intervention_history, stop_processing, clock, proc,
                   executions, stopper>>
    /\ UNCHANGED <<engineVars, sessionVars>>

\* get_intervention_status, line 328: the subscript, which raises KeyError
\* when the key was deleted after the membership test
StatusSubscript ==
    /\ reader.pc = "subscript"
    /\ reader' = IF ActiveHas(active_interventions, reader.id)
                 THEN [reader EXCEPT !.pc = "returned",
                                     !.result = get_intervention_status(reader.id)]
                 ELSE [reader EXCEPT !.pc = "returned", !.raised = TRUE]
    /\ UNCHANGED <<interventions, pending_interventions, active_interventions,
                   intervention_history, stop_processing, clock, proc,
                   executions, stopper>>
    /\ UNCHANGED <<engineVars, sessionVars>>

\* get_intervention_status, lines 330-334: the scan of the history
StatusScan ==
    /\ reader.pc = "scan"
    /\ reader' = [reader EXCEPT
                    !.pc = "returned",
                    !.result =
                       LET hits == {i \in 1..Len(intervention_history) :
                                      interventions[intervention_history[i]].intervention_id
                                         = reader.id}
                       IN  IF hits = {} THEN 0
                           ELSE intervention_history[CHOOSE i \in hits :
                                                       \A j \in hits : i <= j]]
    /\ UNCHANGED <<interventions, pending_interventions, active_interventions,
                   intervention_history, stop_processing, clock, proc,
                   executions, stopper>>
    /\ UNCHANGED <<engineVars, sessionVars>>

NextBrokerStatus ==
    \/ SubmitIntervention(SubmitKinds)
    \/ Tick
    \/ ConsumerCheck
    \/ ConsumerGet
    \/ HandleStatus("consumer")
    \/ HandleActive("consumer")
    \/ HandleExecute("consumer")
    \/ HandleHistory("consumer")
    \/ HandleDelete("consumer")
    \/ StatusLookup
    \/ StatusSubscript
    \/ StatusScan

SpecBrokerStatus == InitBrokerOnly /\ [][NextBrokerStatus]_vars

\* C38: a call of get_intervention_status that runs while the consumer
\* thread handles the same intervention never raises, and for an
\* intervention the consumer has claimed it never returns None: the
\* intervention is found in active_interventions or in the history at
\* every interleaving.
C38_StatusLookupSafe ==
    (reader.pc = "returned" /\ reader.claimed) =>
        /\ ~reader.raised
        /\ reader.result = reader.obj

(***************************************************************************)
(* stop_discussion called by another thread while start_discussion runs.   *)
(***************************************************************************)
\* stop_discussion (lines 947-950), called once while the engine is running
StopDiscussion ==
    /\ is_running
    /\ ~stop_call.called
    /\ is_running' = FALSE
    /\ stop_call' = [called |-> TRUE, at |-> pc, round |-> current_round]
    /\ UNCHANGED <<interface, agents, assessments, decision_call,
                   user_participation, max_rounds, current_round,
                   skip_remaining_agents, discussion_log, user_interventions,
                   additional_info, messages, skip_current_round,
                   terminate_discussion, pc, round_log, agent_idx,
                   current_history, result, last_prompt, invocations, handled,
                   budget>>
    /\ UNCHANGED <<brokerVars, sessionVars>>

\* start_discussion, line 284: the test of is_running after the loop.  It
\* is read once; the summary and the record are built afterwards.
FinishTest ==
    /\ pc = "finish"
    /\ IF SummaryBranch(is_running)
       THEN /\ pc' = "summary"
            /\ UNCHANGED <<result, is_running, assessments, decision_call>>
       ELSE FinishWith(FALSE)
    /\ UNCHANGED <<interface, agents, user_participation, max_rounds, current_round,
                   skip_remaining_agents, discussion_log, user_interventions,
                   additional_info, messages, skip_current_round,
                   terminate_discussion, round_log, agent_idx, current_history,
                   last_prompt, invocations, handled, budget>>
    /\ UNCHANGED <<brokerVars, sessionVars, stop_call>>

\* start_discussion, lines 285-316 and 323-324: the summary is generated,
\* the complete record returned and is_running cleared
FinishSummary ==
    /\ pc = "summary"
    /\ FinishWith(TRUE)

NextStop ==
    \/ StartDiscussion
    \/ NextRound
    \/ InvokeParticipant
    \/ Checkpoint
    \/ EndRound
    \/ FinishTest
    \/ FinishSummary
    \/ StopDiscussion

\* an engine with the shipped interface, and one abnormal event
InitStop ==
    /\ InitEngine({"cli"}, BOOLEAN, 1..MaxRounds, 1)
    /\ InitBroker
    /\ InitSession

SpecStop == InitStop /\ [][NextStop]_vars

\* once stop_discussion was called no round is started
C40_Transition ==
    stop_call.called => ~(pc = "loop" /\ pc' = "agents")

\* C40: when stop_discussion is called from another thread while the engine
\* is running, at most the remainder of the round in flight is executed, no
\* later round is started, and start_discussion returns the interrupted
\* result, not the completed one.
C40_StopInterrupts ==
    /\ [][C40_Transition]_vars
    /\ [](pc = "done" /\ stop_call.called =>
             /\ result.status = "interrupted"
             /\ Len(NormalRounds(discussion_log)) <= Max(stop_call.round, 1))

=============================================================================
